---- MODULE Spec2Model ----
(***************************************************************************)
(* State-machine model of src/src/App.js (component SpotifyReactTest):     *)
(* the PKCE login flow (authenticate / handleAuthCallback / mount effect), *)
(* the Web Playback SDK player lifecycle (initializePlayer and its         *)
(* listeners), the playback commands, the two audio probes, the log and    *)
(* the cleanup of the mount effect.                                        *)
(*                                                                         *)
(* One action is one run-to-completion slice of JavaScript: an event       *)
(* handler or an async function from its entry, or from an await, up to    *)
(* its next await or its return.  React state is modelled by the value     *)
(* last passed to its setter while the component is mounted; a setter      *)
(* called after the unmount changes nothing.  The emoji that prefix some   *)
(* of the source's status and log strings are left out of the string       *)
(* literals; log timestamps (wall-clock time) are not modelled.            *)
(***************************************************************************)
EXTENDS Naturals, Sequences, FiniteSets, TLC

VARIABLES
    authStatus,          \* useState('Initializing...')
    player,              \* useState(null)
    deviceId,            \* useState(null)
    accessToken,         \* useState(null)
    isPaused,            \* useState(true)
    currentTrack,        \* useState(null)
    logs,                \* useState([])
    audioCaptureResult,  \* useState(null)
    mounted,             \* the component is mounted (its cleanup has not run)
    code_verifier,       \* sessionStorage item 'code_verifier'
    location,            \* what the tab shows: the app at some URL, or the provider;
                         \* and the URL assigned to location.href, not yet loaded
    hac,                 \* position of the mount effect's handleAuthCallback() call
    cleanupPlayer,       \* the `player` binding the mount effect's cleanup closes over
    authPending,         \* authenticate() calls suspended at their await, by verifier
    sdk,                 \* SDK script: "none", "loading", "ready"
    connectPending,      \* spotifyPlayer.connect() not yet settled
    gcsPending,          \* getCurrentState() promises not yet settled
    togglePending,       \* player.togglePlay() promises not yet settled
    transferPending,     \* transferPlayback() fetches not yet settled
    probes,              \* testAudioCapture() calls suspended at getDisplayMedia
    mixing,              \* testFullAudioMixing() calls at their awaits, and the
                         \* capture streams and audio contexts not yet released
    taken,               \* user commands and external events taken on this page
                         \* (SDK events, connect() settling, the unmount)
    lastOp,              \* history: the slice that ran last, with its input
    pre,                 \* history: component state and storage before that slice
    exchanged,           \* history: codes a token was ever obtained for
    consumed,            \* history: those of them obtained since the last setItem
    probeCalls,          \* history: testAudioCapture() calls made on this page
    errorEvents          \* history: the player of this page has emitted an
                         \* initialization_error, authentication_error or account_error

reactState == <<authStatus, player, deviceId, accessToken, isPaused,
                currentTrack, logs, audioCaptureResult>>
asyncState == <<mounted, hac, cleanupPlayer, authPending, sdk, connectPending,
                gcsPending, togglePending, transferPending, probes, mixing, taken>>
history    == <<lastOp, pre, exchanged, consumed, probeCalls, errorEvents>>
vars == <<reactState, code_verifier, location, asyncState, history>>

-----------------------------------------------------------------------------
(* Bounds of the model *)

\* User commands and external events (SDK events, the settling of connect(),
\* the unmount) taken on one page, from its load on.  What a command or an
\* event leaves in flight runs on whatever the count.
MaxStimuli == 2

-----------------------------------------------------------------------------
(* Values *)

null == "null"                       \* JavaScript null / undefined
Truthy(x) == x # null /\ x # ""      \* if (x) on a string-or-null value

Codes      == {"abc123"}             \* authorization codes
CodeParams == Codes \cup {"", null}  \* urlParams.get('code')
Errors     == {"access_denied"}
ErrorParams == Errors \cup {"", null} \* urlParams.get('error')
Verifiers  == {"v1", "v2"}           \* outputs of generateCodeVerifier
Tokens     == {"tok1"}
DeviceIds  == {"dev1", "dev2"}
Messages   == {"failed"}             \* error.message / { message } payloads

Entry(message, type) == [message |-> message, type |-> type]
Info(message) == Entry(message, "info")

\* generateCodeChallenge: base64url(SHA-256(verifier)), kept symbolic; it is
\* injective on Verifiers and never equal to its argument.
generateCodeChallenge(verifier) == "S256(" \o verifier \o ")"

\* A state setter called with `value`: the state afterwards.
SetState(current, value) == IF mounted THEN value ELSE current

\* log(message, type) for each of the entries, in order.
Log(entries) == logs' = SetState(logs, logs \o entries)

Snapshot ==
    [authStatus |-> authStatus, player |-> player, deviceId |-> deviceId,
     accessToken |-> accessToken, isPaused |-> isPaused,
     currentTrack |-> currentTrack, logs |-> logs,
     audioCaptureResult |-> audioCaptureResult,
     code_verifier |-> code_verifier, transferPending |-> transferPending]

Op(name, arg) == [op |-> name, arg |-> arg]

NoResult == [absent |-> TRUE]        \* audioCaptureResult === null
NoMixing == [mic |-> 0, system |-> 0, streams |-> 0, contexts |-> 0]
NoCalls  == [v \in Verifiers |-> 0]
HacIdle  == [pc |-> "mount", code |-> null, code_verifier |-> null,
             status |-> null, ret |-> null]

\* The component as constructed (the useState initial values), with an
\* empty sessionStorage.
Constructed ==
    [authStatus |-> "Initializing...", player |-> null, deviceId |-> null,
     accessToken |-> null, isPaused |-> TRUE, currentTrack |-> null,
     logs |-> <<>>, audioCaptureResult |-> NoResult, code_verifier |-> null,
     transferPending |-> 0]

\* The event loop is between tasks: the mount effect has run (React flushes
\* it before the page handles any event) and the promise returned by
\* handleAuthCallback has no reaction (.then callback) waiting to run.
Idle == location.page = "app" /\ hac.pc \notin {"mount", "resolved"}
CanTake == Idle /\ taken < MaxStimuli
\* The buttons exist while the component is mounted.
CanClick == CanTake /\ mounted

-----------------------------------------------------------------------------
(* Page lifecycle *)

\* The component's state and everything it has in flight, as constructed.
\* sessionStorage is the tab's and survives.
Fresh(pc) ==
    /\ authStatus' = "Initializing..."
    /\ player' = null
    /\ deviceId' = null
    /\ accessToken' = null
    /\ isPaused' = TRUE
    /\ currentTrack' = null
    /\ logs' = <<>>
    /\ audioCaptureResult' = NoResult
    /\ mounted' = (pc = "mount")
    /\ hac' = [HacIdle EXCEPT !.pc = pc]
    /\ cleanupPlayer' = null
    /\ authPending' = NoCalls
    /\ sdk' = "none"
    /\ connectPending' = FALSE
    /\ gcsPending' = 0
    /\ togglePending' = 0
    /\ transferPending' = 0
    /\ probes' = <<>>
    /\ mixing' = NoMixing
    /\ taken' = 0
    /\ probeCalls' = 0
    /\ errorEvents' = FALSE
    /\ pre' = [Constructed EXCEPT !.code_verifier = code_verifier']

\* A (re)load of the app at a URL with the given query parameters: the
\* component is constructed afresh and its mount effect is due.
PageLoad(code, error) ==
    /\ location' = [page |-> "app", code |-> code, error |-> error,
                    code_challenge |-> null, href |-> null]
    /\ Fresh("mount")

Init ==
    /\ authStatus = "Initializing..."
    /\ player = null
    /\ deviceId = null
    /\ accessToken = null
    /\ isPaused = TRUE
    /\ currentTrack = null
    /\ logs = <<>>
    /\ audioCaptureResult = NoResult
    /\ mounted = TRUE
    /\ code_verifier = null
    /\ location = [page |-> "app", code |-> null, error |-> null,
                   code_challenge |-> null, href |-> null]
    /\ hac = HacIdle
    /\ cleanupPlayer = null
    /\ authPending = NoCalls
    /\ sdk = "none"
    /\ connectPending = FALSE
    /\ gcsPending = 0
    /\ togglePending = 0
    /\ transferPending = 0
    /\ probes = <<>>
    /\ mixing = NoMixing
    /\ taken = 0
    /\ lastOp = Op("construct", null)
    /\ pre = Constructed
    /\ exchanged = {}
    /\ consumed = {}
    /\ probeCalls = 0
    /\ errorEvents = FALSE

\* The tab leaves the page (a reload or a navigation of the user's begins):
\* the document, the component and whatever they have in flight are gone.
Unload ==
    /\ Idle
    /\ UNCHANGED <<code_verifier, exchanged, consumed>>
    /\ location' = [location EXCEPT !.page = "unloaded", !.href = null]
    /\ Fresh("gone")
    /\ lastOp' = Op("unload", null)

\* The navigation started by `window.location.href = authUrl` commits: the
\* tab shows the provider's authorize page for that URL's code_challenge,
\* and the document and whatever it has in flight are gone.
LeaveForProvider ==
    /\ Idle
    /\ location.href # null
    /\ UNCHANGED <<code_verifier, exchanged, consumed>>
    /\ location' = [page |-> "provider", code |-> null, error |-> null,
                    code_challenge |-> location.href, href |-> null]
    /\ Fresh("gone")
    /\ lastOp' = Op("leave", location.href)

\* The reload completes: same URL.
Reload ==
    /\ location.page = "unloaded"
    /\ UNCHANGED <<code_verifier, exchanged, consumed>>
    /\ PageLoad(location.code, location.error)
    /\ lastOp' = Op("reload", null)

\* The user opens an app URL in this tab (typed, pasted or from a bookmark).
Navigate ==
    /\ location.page \in {"unloaded", "provider"}
    /\ UNCHANGED <<code_verifier, exchanged, consumed>>
    /\ \E code \in CodeParams, error \in ErrorParams :
          /\ PageLoad(code, error)
          /\ lastOp' = Op("navigate", <<code, error>>)

\* The provider's authorize page redirects back to REDIRECT_URI with a code
\* or with an error.
ProviderRedirect ==
    /\ location.page = "provider"
    /\ UNCHANGED <<code_verifier, exchanged, consumed>>
    /\ \/ \E code \in Codes :
            /\ PageLoad(code, null)
            /\ lastOp' = Op("redirect", <<code, null>>)
       \/ \E error \in Errors :
            /\ PageLoad(null, error)
            /\ lastOp' = Op("redirect", <<null, error>>)

-----------------------------------------------------------------------------
(* Frames *)

authFrame == <<mounted, code_verifier, location, hac, cleanupPlayer, authPending,
               exchanged, consumed>>
playerFrame == <<player, deviceId, accessToken, isPaused, currentTrack, sdk,
                 connectPending, gcsPending>>
callFrame == <<togglePending, transferPending, probes, mixing>>
marks == <<probeCalls, errorEvents>>

-----------------------------------------------------------------------------
(* The mount effect's cleanup *)

\* Whether a call of the mount effect's cleanup calls disconnect():
\* if (player) player.disconnect(), on the `player` it closes over.
Cleanup(closurePlayer) == Truthy(closurePlayer)

\* React unmounts the component: the cleanup of the mount effect runs.  It
\* cancels nothing: the document stays, and what the component has in
\* flight goes on.
Teardown ==
    /\ CanClick
    /\ mounted' = FALSE
    /\ lastOp' = Op("teardown", [player |-> player,
                                 disconnect |-> Cleanup(cleanupPlayer)])
    /\ pre' = Snapshot
    /\ taken' = taken + 1
    /\ UNCHANGED <<reactState, code_verifier, location, hac, cleanupPlayer,
                   authPending, sdk, connectPending, gcsPending, exchanged,
                   consumed>>
    /\ UNCHANGED <<callFrame, marks>>

-----------------------------------------------------------------------------
(* clearLog *)

\* clearLog: setLogs([]).  Its button is never disabled.
ClearLog ==
    /\ CanClick
    /\ logs' = SetState(logs, <<>>)
    /\ lastOp' = Op("clearLog", null)
    /\ pre' = Snapshot
    /\ taken' = taken + 1
    /\ UNCHANGED <<authStatus, audioCaptureResult>>
    /\ UNCHANGED <<playerFrame, authFrame, callFrame, marks>>

-----------------------------------------------------------------------------
(* authenticate *)

\* authenticate up to `await generateCodeChallenge(codeVerifier)`.
AuthenticateStart ==
    /\ CanClick
    /\ \E codeVerifier \in Verifiers :
          /\ authPending' = [authPending EXCEPT ![codeVerifier] = @ + 1]
          /\ lastOp' = Op("authenticate", codeVerifier)
    /\ Log(<<Info("Starting PKCE Spotify authentication...")>>)
    /\ pre' = Snapshot
    /\ taken' = taken + 1
    /\ UNCHANGED <<authStatus, audioCaptureResult, mounted, code_verifier,
                   location, hac, cleanupPlayer, exchanged, consumed>>
    /\ UNCHANGED <<playerFrame, callFrame, marks>>

\* Variant of SetItem that keeps an item already stored.
SetItem_KeepsExisting(item, value) == IF item # null THEN item ELSE value

\* sessionStorage.setItem('code_verifier', value): the item after the call.
SetItem(item, value) == value

\* authenticate after the await: setItem, and the assignment to
\* window.location.href, which starts a navigation.  The document goes on
\* running until that navigation commits (LeaveForProvider).
AuthenticateResume ==
    /\ Idle
    /\ \E codeVerifier \in Verifiers :
          /\ authPending[codeVerifier] > 0
          /\ authPending' = [authPending EXCEPT ![codeVerifier] = @ - 1]
          /\ code_verifier' = SetItem(code_verifier, codeVerifier)
          /\ location' = [location EXCEPT
                             !.href = generateCodeChallenge(codeVerifier)]
          /\ lastOp' = Op("authorize", [codeVerifier |-> codeVerifier,
                                        replaced |-> code_verifier])
    /\ consumed' = {}
    /\ pre' = Snapshot
    /\ UNCHANGED <<reactState, mounted, hac, cleanupPlayer, exchanged, taken>>
    /\ UNCHANGED <<sdk, connectPending, gcsPending, callFrame, marks>>

-----------------------------------------------------------------------------
(* handleAuthCallback and the mount effect *)

\* Variant of CallbackBranch that looks at `code` before `error`.
CallbackBranch_CodeFirst(code, error, storedCodeVerifier) ==
    IF Truthy(code)
    THEN IF ~Truthy(storedCodeVerifier) THEN "no verifier" ELSE "fetch"
    ELSE IF Truthy(error) THEN "error" ELSE "no code"

\* Variant of CallbackBranch without the `if (!storedCodeVerifier)` check.
CallbackBranch_NoVerifierCheck(code, error, storedCodeVerifier) ==
    IF Truthy(error) THEN "error"
    ELSE IF Truthy(code) THEN "fetch" ELSE "no code"

\* The branch handleAuthCallback takes on the query parameters and the
\* stored verifier: `if (error)`, then `if (code)`, then `if
\* (!storedCodeVerifier)`.
CallbackBranch(code, error, storedCodeVerifier) ==
    IF Truthy(error) THEN "error"
    ELSE IF Truthy(code)
         THEN IF ~Truthy(storedCodeVerifier) THEN "no verifier" ELSE "fetch"
         ELSE "no code"

\* The mount effect: its first log line, then handleAuthCallback() up to
\* its first await or its return.  The effect has no dependencies: it runs
\* once, and the cleanup it returns closes over the `player` of the render
\* it ran in.
MountEffect ==
    /\ location.page = "app"
    /\ hac.pc = "mount"
    /\ LET code  == location.code
           error == location.error
           boot  == Info("React Spotify Test initialized - Following official pattern")
           recv  == Info("Authorization code received, exchanging for token with PKCE...")
           branch == CallbackBranch(code, error, code_verifier)
       IN  CASE branch = "error" ->
               /\ Log(<<boot, Entry("Authentication error: " \o error, "error")>>)
               /\ authStatus' = SetState(authStatus, "Authentication failed")
               /\ hac' = [HacIdle EXCEPT !.pc = "resolved"]
             [] branch = "no verifier" ->
               /\ Log(<<boot, recv,
                      Entry("Token exchange error: Code verifier not found", "error")>>)
               /\ authStatus' = SetState(authStatus, "Token exchange failed")
               /\ hac' = [HacIdle EXCEPT !.pc = "resolved"]
             [] branch = "fetch" ->
               /\ Log(<<boot, recv>>)
               /\ authStatus' = SetState(authStatus, "Exchanging code for token...")
               /\ hac' = [HacIdle EXCEPT !.pc = "fetch", !.code = code,
                                         !.code_verifier = code_verifier]
             [] OTHER ->
               /\ Log(<<boot>>)
               /\ authStatus' = authStatus
               /\ hac' = [HacIdle EXCEPT !.pc = "resolved"]
    /\ cleanupPlayer' = player
    /\ lastOp' = Op("handleAuthCallback", <<location.code, location.error>>)
    /\ pre' = Snapshot
    /\ UNCHANGED <<player, deviceId, accessToken, isPaused, currentTrack,
                   audioCaptureResult, mounted, code_verifier, location,
                   authPending, sdk, connectPending, gcsPending, taken,
                   exchanged, consumed>>
    /\ UNCHANGED <<callFrame, marks>>

\* The catch block of handleAuthCallback.
CatchTokenError(message) ==
    /\ Log(<<Entry("Token exchange error: " \o message, "error")>>)
    /\ authStatus' = SetState(authStatus, "Token exchange failed")
    /\ hac' = [HacIdle EXCEPT !.pc = "resolved"]
    /\ UNCHANGED <<accessToken, code_verifier, location, exchanged, consumed>>

\* `await fetch(token endpoint)` settles: a response with a status, or a
\* rejection (network failure).
TokenResponse ==
    /\ location.page = "app"
    /\ hac.pc = "fetch"
    /\ \/ \E status \in {"200", "400"} :
            /\ hac' = [hac EXCEPT !.pc = "json", !.status = status]
            /\ lastOp' = Op("tokenResponse", status)
            /\ UNCHANGED <<logs, authStatus, accessToken, code_verifier,
                           location, exchanged, consumed>>
       \/ \E message \in Messages :
            /\ CatchTokenError(message)
            /\ lastOp' = Op("tokenResponse", "rejected")
    /\ pre' = Snapshot
    /\ UNCHANGED <<player, deviceId, isPaused, currentTrack,
                   audioCaptureResult, mounted, cleanupPlayer, authPending, sdk,
                   connectPending, gcsPending, taken>>
    /\ UNCHANGED <<callFrame, marks>>

\* Variant of RemoveItem that leaves the item in place.
RemoveItem_Kept(item) == item

\* sessionStorage.removeItem('code_verifier')
RemoveItem(item) == null

\* Variant of ReplaceState that leaves the URL as it is.
ReplaceState_Skipped(url) == url

\* window.history.replaceState({}, document.title, REDIRECT_URI): the URL
\* without its query string.
ReplaceState(url) == [url EXCEPT !.code = null, !.error = null]

\* Bodies tokenResponse.json() can resolve to.
ErrorBodies == [error : {"invalid_grant"},
                error_description : {"Invalid authorization code", null}]
TokenBodies == [access_token : Tokens \cup {null}]

\* `await tokenResponse.json()` settles, on the !ok path or on the ok path.
TokenBody ==
    /\ location.page = "app"
    /\ hac.pc = "json"
    /\ \/ /\ hac.status # "200"
          /\ \E errorData \in ErrorBodies :
                /\ CatchTokenError("Token exchange failed: " \o hac.status \o " - " \o
                       (IF Truthy(errorData.error_description)
                        THEN errorData.error_description ELSE errorData.error))
                /\ lastOp' = Op("tokenBody", errorData)
       \/ /\ hac.status = "200"
          /\ \E tokenData \in TokenBodies :
                /\ lastOp' = Op("tokenBody", tokenData)
                /\ IF Truthy(tokenData.access_token) THEN
                       /\ accessToken' = SetState(accessToken, tokenData.access_token)
                       /\ Log(<<Entry("Access token obtained with PKCE", "success")>>)
                       /\ authStatus' = SetState(authStatus, "Authenticated with Spotify")
                       /\ code_verifier' = RemoveItem(code_verifier)
                       /\ location' = ReplaceState(location)
                       /\ hac' = [HacIdle EXCEPT !.pc = "resolved",
                                                 !.ret = tokenData.access_token]
                       /\ exchanged' = exchanged \cup {hac.code}
                       /\ consumed' = consumed \cup {hac.code}
                   ELSE
                       /\ hac' = [HacIdle EXCEPT !.pc = "resolved"]
                       /\ UNCHANGED <<logs, authStatus, accessToken, code_verifier,
                                      location, exchanged, consumed>>
       \/ \E message \in Messages :
            /\ CatchTokenError(message)
            /\ lastOp' = Op("tokenBody", "rejected")
    /\ pre' = Snapshot
    /\ UNCHANGED <<player, deviceId, isPaused, currentTrack,
                   audioCaptureResult, mounted, cleanupPlayer, authPending, sdk,
                   connectPending, gcsPending, taken>>
    /\ UNCHANGED <<callFrame, marks>>

\* Variant of AuthCallbackThen that loads the SDK whatever the token.
AuthCallbackThen_AlwaysLoads ==
    /\ location.page = "app"
    /\ hac.pc = "resolved"
    /\ sdk' = "loading"
    /\ hac' = [hac EXCEPT !.pc = "done"]
    /\ lastOp' = Op("then", hac.ret)
    /\ pre' = Snapshot
    /\ UNCHANGED <<reactState, mounted, code_verifier, location, cleanupPlayer,
                   authPending, connectPending, gcsPending, taken, exchanged,
                   consumed>>
    /\ UNCHANGED <<callFrame, marks>>

\* handleAuthCallback().then(token => ...): runs as soon as the promise is
\* settled, before any other task.
AuthCallbackThen ==
    /\ location.page = "app"
    /\ hac.pc = "resolved"
    /\ IF Truthy(hac.ret) THEN
           /\ sdk' = "loading"
           /\ UNCHANGED <<logs, authStatus>>
       ELSE
           /\ Log(<<Info("No token found - please authenticate first")>>)
           /\ authStatus' = SetState(authStatus, "Please authenticate with Spotify")
           /\ sdk' = sdk
    /\ hac' = [hac EXCEPT !.pc = "done"]
    /\ lastOp' = Op("then", hac.ret)
    /\ pre' = Snapshot
    /\ UNCHANGED <<player, deviceId, accessToken, isPaused, currentTrack,
                   audioCaptureResult, mounted, code_verifier, location,
                   cleanupPlayer, authPending, connectPending, gcsPending, taken,
                   exchanged, consumed>>
    /\ UNCHANGED <<callFrame, marks>>

-----------------------------------------------------------------------------
(* The Web Playback SDK player: initializePlayer and its listeners *)

\* window.onSpotifyWebPlaybackSDKReady: the script has loaded; the callback
\* logs and runs initializePlayer(token) with the token the .then callback
\* received, up to and including spotifyPlayer.connect().
initializePlayer(token) ==
    IF ~Truthy(token) THEN
        /\ Log(<<Info("Spotify Web Playback SDK loaded (official pattern)")>>)
        /\ UNCHANGED <<player, connectPending>>
    ELSE
        /\ Log(<<Info("Spotify Web Playback SDK loaded (official pattern)"),
                 Info("Initializing Spotify Web Player (official pattern)...")>>)
        /\ player' = SetState(player, "Spotify.Player")
        /\ connectPending' = TRUE

SDKReady ==
    /\ Idle
    /\ sdk = "loading"
    /\ initializePlayer(hac.ret)
    /\ sdk' = "ready"
    /\ lastOp' = Op("onSpotifyWebPlaybackSDKReady", hac.ret)
    /\ pre' = Snapshot
    /\ UNCHANGED <<authStatus, deviceId, accessToken, isPaused, currentTrack,
                   audioCaptureResult, gcsPending, taken>>
    /\ UNCHANGED <<authFrame, callFrame, marks>>

\* spotifyPlayer.connect().then(success => ...): the SDK settles connect(),
\* one of the events of the page.
ConnectResult ==
    /\ CanTake
    /\ connectPending
    /\ \E success \in BOOLEAN :
          /\ Log(<<IF success
                   THEN Entry("Connected to Spotify Web Player (official pattern)", "success")
                   ELSE Entry("Failed to connect", "error")>>)
          /\ lastOp' = Op("connect", success)
    /\ connectPending' = FALSE
    /\ pre' = Snapshot
    /\ taken' = taken + 1
    /\ UNCHANGED <<authStatus, player, deviceId, accessToken, isPaused,
                   currentTrack, audioCaptureResult, sdk, gcsPending>>
    /\ UNCHANGED <<authFrame, callFrame, marks>>

\* The listeners are registered on the player initializePlayer constructed.
Listening == CanTake /\ sdk = "ready" /\ Truthy(hac.ret)

\* A listener that only logs.
LogOnly(entry) ==
    /\ Log(<<entry>>)
    /\ UNCHANGED <<player, deviceId, accessToken, isPaused, currentTrack,
                   audioCaptureResult, sdk, connectPending, gcsPending>>
    /\ UNCHANGED <<authFrame, callFrame>>

InitializationError ==
    /\ Listening
    /\ \E message \in Messages :
          /\ LogOnly(Entry("Initialization error: " \o message, "error"))
          /\ lastOp' = Op("initialization_error", message)
    /\ authStatus' = SetState(authStatus, "Player initialization failed")
    /\ errorEvents' = TRUE
    /\ pre' = Snapshot
    /\ taken' = taken + 1
    /\ UNCHANGED probeCalls

AuthenticationError ==
    /\ Listening
    /\ \E message \in Messages :
          /\ LogOnly(Entry("Authentication error: " \o message, "error"))
          /\ lastOp' = Op("authentication_error", message)
    /\ authStatus' = authStatus
    /\ errorEvents' = TRUE
    /\ pre' = Snapshot
    /\ taken' = taken + 1
    /\ UNCHANGED probeCalls

AccountError ==
    /\ Listening
    /\ \E message \in Messages :
          /\ LogOnly(Entry("Account error: " \o message \o " - Premium required", "error"))
          /\ lastOp' = Op("account_error", message)
    /\ authStatus' = authStatus
    /\ errorEvents' = TRUE
    /\ pre' = Snapshot
    /\ taken' = taken + 1
    /\ UNCHANGED probeCalls

\* Payloads of player_state_changed; a current track names at least one
\* artist (the SDK's event contract), here two.
NoState == [absent |-> TRUE]
NoTrack == [absent |-> TRUE]
Artist(name) == [name |-> name]
Tracks == [name : {"X"},
           artists : {<<Artist("Y"), Artist("Z")>>}]
PlayerStates == [paused : BOOLEAN,
                 track_window : [current_track : Tracks \cup {NoTrack}]]

\* Variant of TrackLabel that names the last artist.
TrackLabel_LastArtist(current_track) ==
    current_track.artists[Len(current_track.artists)].name
        \o " - " \o current_track.name

\* `${artists[0].name} - ${name}`
TrackLabel(current_track) ==
    current_track.artists[1].name \o " - " \o current_track.name

\* Variant of PlayerStateChangedListener that leaves isPaused alone when the
\* payload is absent.
PlayerStateChangedListener_KeepsPaused(state) ==
    IF state = NoState THEN
        /\ currentTrack' = SetState(currentTrack, null)
        /\ isPaused' = isPaused
        /\ UNCHANGED <<logs, gcsPending>>
    ELSE
        /\ isPaused' = SetState(isPaused, state.paused)
        /\ LET current_track == state.track_window.current_track IN
           IF current_track = NoTrack THEN
               /\ gcsPending' = gcsPending + 1
               /\ UNCHANGED <<currentTrack, logs>>
           ELSE
               /\ currentTrack' = SetState(currentTrack, TrackLabel(current_track))
               /\ Log(<<Info("Now playing: " \o TrackLabel(current_track))>>)
               /\ gcsPending' = gcsPending + 1

\* The player_state_changed listener.
PlayerStateChangedListener(state) ==
    IF state = NoState THEN
        /\ currentTrack' = SetState(currentTrack, null)
        /\ isPaused' = SetState(isPaused, TRUE)
        /\ UNCHANGED <<logs, gcsPending>>
    ELSE
        /\ isPaused' = SetState(isPaused, state.paused)
        /\ LET current_track == state.track_window.current_track IN
           IF current_track = NoTrack THEN
               /\ gcsPending' = gcsPending + 1
               /\ UNCHANGED <<currentTrack, logs>>
           ELSE
               /\ currentTrack' = SetState(currentTrack, TrackLabel(current_track))
               /\ Log(<<Info("Now playing: " \o TrackLabel(current_track))>>)
               /\ gcsPending' = gcsPending + 1

PlayerStateChanged ==
    /\ Listening
    /\ \E state \in PlayerStates \cup {NoState} :
          /\ PlayerStateChangedListener(state)
          /\ lastOp' = Op("player_state_changed", state)
    /\ pre' = Snapshot
    /\ taken' = taken + 1
    /\ UNCHANGED <<authStatus, player, deviceId, accessToken,
                   audioCaptureResult, sdk, connectPending>>
    /\ UNCHANGED <<authFrame, callFrame, marks>>

\* spotifyPlayer.getCurrentState().then(currentState => ...)
CurrentStateResult ==
    /\ Idle
    /\ gcsPending > 0
    /\ \E active \in BOOLEAN :
          /\ Log(IF active THEN <<>>
                 ELSE <<Info("Player is not active - transfer playback needed")>>)
          /\ lastOp' = Op("getCurrentState", active)
    /\ gcsPending' = gcsPending - 1
    /\ pre' = Snapshot
    /\ UNCHANGED <<authStatus, player, deviceId, accessToken, isPaused,
                   currentTrack, audioCaptureResult, sdk, connectPending, taken>>
    /\ UNCHANGED <<authFrame, callFrame, marks>>

\* Variant of ReadyListener that does not record the device id.
ReadyListener_NoDevice(device_id) ==
    /\ Log(<<Entry("Player ready! Device ID: " \o device_id, "success")>>)
    /\ deviceId' = deviceId
    /\ authStatus' = SetState(authStatus, "Player ready - Transfer playback from Spotify app")

\* The ready listener.
ReadyListener(device_id) ==
    /\ Log(<<Entry("Player ready! Device ID: " \o device_id, "success")>>)
    /\ deviceId' = SetState(deviceId, device_id)
    /\ authStatus' = SetState(authStatus, "Player ready - Transfer playback from Spotify app")

Ready ==
    /\ Listening
    /\ \E device_id \in DeviceIds :
          /\ ReadyListener(device_id)
          /\ lastOp' = Op("ready", device_id)
    /\ pre' = Snapshot
    /\ taken' = taken + 1
    /\ UNCHANGED <<player, accessToken, isPaused, currentTrack,
                   audioCaptureResult, sdk, connectPending, gcsPending>>
    /\ UNCHANGED <<authFrame, callFrame, marks>>

\* Variant of NotReady that forgets the device id.
NotReady_ClearsDevice ==
    /\ Listening
    /\ \E device_id \in DeviceIds :
          /\ Log(<<Entry("Player not ready. Device ID: " \o device_id, "warning")>>)
          /\ lastOp' = Op("not_ready", device_id)
    /\ deviceId' = null
    /\ pre' = Snapshot
    /\ taken' = taken + 1
    /\ UNCHANGED <<authStatus, player, accessToken, isPaused, currentTrack,
                   audioCaptureResult, sdk, connectPending, gcsPending>>
    /\ UNCHANGED <<authFrame, callFrame, marks>>

\* The not_ready listener.
NotReady ==
    /\ Listening
    /\ \E device_id \in DeviceIds :
          /\ LogOnly(Entry("Player not ready. Device ID: " \o device_id, "warning"))
          /\ lastOp' = Op("not_ready", device_id)
    /\ authStatus' = authStatus
    /\ pre' = Snapshot
    /\ taken' = taken + 1
    /\ UNCHANGED marks

-----------------------------------------------------------------------------
(* Playback controls *)

\* togglePlayback up to `await player.togglePlay()`.
TogglePlayback ==
    /\ CanClick
    /\ togglePending' = IF player # null THEN togglePending + 1 ELSE togglePending
    /\ lastOp' = Op("togglePlayback", null)
    /\ pre' = Snapshot
    /\ taken' = taken + 1
    /\ UNCHANGED <<authStatus, logs, audioCaptureResult, transferPending, probes,
                   mixing>>
    /\ UNCHANGED <<playerFrame, authFrame, marks>>

\* Variant of ToggleResult that flips isPaused when togglePlay resolves.
ToggleResult_FlipsPaused ==
    /\ Idle
    /\ togglePending > 0
    /\ \/ /\ Log(<<Info("Toggled playback")>>)
          /\ isPaused' = SetState(isPaused, ~isPaused)
          /\ lastOp' = Op("togglePlay", "resolved")
       \/ \E message \in Messages :
            /\ Log(<<Entry("Playback error: " \o message, "error")>>)
            /\ isPaused' = isPaused
            /\ lastOp' = Op("togglePlay", "rejected")
    /\ togglePending' = togglePending - 1
    /\ pre' = Snapshot
    /\ UNCHANGED <<authStatus, player, deviceId, accessToken, currentTrack,
                   audioCaptureResult, sdk, connectPending, gcsPending,
                   transferPending, probes, mixing, taken>>
    /\ UNCHANGED <<authFrame, marks>>

\* player.togglePlay() settles.
ToggleResult ==
    /\ Idle
    /\ togglePending > 0
    /\ \/ /\ Log(<<Info("Toggled playback")>>)
          /\ lastOp' = Op("togglePlay", "resolved")
       \/ \E message \in Messages :
            /\ Log(<<Entry("Playback error: " \o message, "error")>>)
            /\ lastOp' = Op("togglePlay", "rejected")
    /\ togglePending' = togglePending - 1
    /\ pre' = Snapshot
    /\ UNCHANGED <<authStatus, audioCaptureResult, transferPending, probes,
                   mixing, taken>>
    /\ UNCHANGED <<playerFrame, authFrame, marks>>

\* Variant of TransferGuard that looks at the token only.
TransferGuard_TokenOnly == Truthy(accessToken)

\* The guard of transferPlayback: if (!deviceId || !accessToken) return.
TransferGuard == Truthy(deviceId) /\ Truthy(accessToken)

\* transferPlayback up to `await fetch(.../v1/me/player, PUT)`.  The call is
\* modelled whatever the Transfer button's disabled attribute says.
TransferPlayback ==
    /\ CanClick
    /\ IF TransferGuard
       THEN /\ transferPending' = transferPending + 1
            /\ lastOp' = Op("transferPlayback",
                            [device_ids |-> <<deviceId>>, play |-> FALSE,
                             Authorization |-> "Bearer " \o accessToken])
       ELSE /\ transferPending' = transferPending
            /\ lastOp' = Op("transferPlayback", [returned |-> TRUE])
    /\ pre' = Snapshot
    /\ taken' = taken + 1
    /\ UNCHANGED <<authStatus, logs, audioCaptureResult, togglePending, probes,
                   mixing>>
    /\ UNCHANGED <<playerFrame, authFrame, marks>>

\* The PUT settles: a response, ok or not, or a rejection.
TransferResponse ==
    /\ Idle
    /\ transferPending > 0
    /\ \/ /\ Log(<<Entry("Playback transferred", "success")>>)
          /\ lastOp' = Op("transferResponse", "204")
       \/ \E status \in {"404"} :
            /\ Log(<<Entry("Transfer failed: " \o status, "error")>>)
            /\ lastOp' = Op("transferResponse", status)
       \/ \E message \in Messages :
            /\ Log(<<Entry("Transfer error: " \o message, "error")>>)
            /\ lastOp' = Op("transferResponse", "rejected")
    /\ transferPending' = transferPending - 1
    /\ pre' = Snapshot
    /\ UNCHANGED <<authStatus, audioCaptureResult, togglePending, probes, mixing,
                   taken>>
    /\ UNCHANGED <<playerFrame, authFrame, marks>>

-----------------------------------------------------------------------------
(* testAudioCapture *)

\* What getDisplayMedia({video: false, audio: true}) settles to: a stream
\* with some number of audio tracks, or a rejection with a message.
Rejections == {"Permission denied"}
DisplayOutcomes == [kind : {"stream"}, audioTracks : {0, 1}]
                   \cup [kind : {"rejected"}, message : Rejections]
\* The second try block: the condition on MediaRecorder is true, or it is
\* false (MediaRecorder undefined or the type unsupported), or evaluating it
\* throws an error whose message is in Messages.
RecorderOutcomes == {"supported", "unsupported", "throws"}

\* testAudioCapture up to `await navigator.mediaDevices.getDisplayMedia(...)`.
\* Both buttons that call it are disabled while there is no player.  The
\* call is the (probeCalls + 1)-th of the page.
TestAudioCapture ==
    /\ CanClick
    /\ player # null
    /\ Log(<<Entry("CRITICAL TEST: Testing audio capture capabilities...", "warning"),
             Info("Testing getDisplayMedia for system audio...")>>)
    /\ probeCalls' = probeCalls + 1
    /\ probes' = Append(probes, probeCalls + 1)
    /\ lastOp' = Op("testAudioCapture", null)
    /\ pre' = Snapshot
    /\ taken' = taken + 1
    /\ UNCHANGED <<authStatus, audioCaptureResult, togglePending, transferPending,
                   mixing, errorEvents>>
    /\ UNCHANGED <<playerFrame, authFrame>>

\* The first try/catch of testAudioCapture, after the await.
DisplayCheck(display) ==
    IF display.kind = "rejected" THEN
        [displayMedia |-> FALSE, error |-> display.message,
         log |-> <<Entry("System audio capture failed: " \o display.message, "error")>>]
    ELSE IF display.audioTracks > 0 THEN
        [displayMedia |-> TRUE, error |-> null,
         log |-> <<Entry("System audio capture: SUCCESS", "success")>>]
    ELSE
        [displayMedia |-> FALSE, error |-> null, log |-> <<>>]

\* The second try/catch of testAudioCapture.
RecorderCheck(recorder) ==
    IF recorder = "supported" THEN
        [mediaRecorder |-> TRUE,
         log |-> <<Entry("MediaRecorder supported", "success")>>]
    ELSE IF recorder = "throws" THEN
        [mediaRecorder |-> FALSE,
         log |-> <<Entry("MediaRecorder test failed: failed", "error")>>]
    ELSE
        [mediaRecorder |-> FALSE, log |-> <<>>]

\* Variant of ProbeVerdict in which a rejection ends the probe's checks: the
\* MediaRecorder check is skipped.
ProbeVerdict_SkipsRecorderOnRejection(display, recorder) ==
    LET d == DisplayCheck(display)
        r == IF display.kind = "rejected"
             THEN [mediaRecorder |-> FALSE, log |-> <<>>]
             ELSE RecorderCheck(recorder)
        results == [displayMedia |-> d.displayMedia, webAudio |-> TRUE,
                    mediaRecorder |-> r.mediaRecorder, error |-> d.error]
    IN  /\ audioCaptureResult' = SetState(audioCaptureResult, results)
        /\ Log(d.log \o r.log \o
              <<IF results.displayMedia
                THEN Entry("VERDICT: Audio capture POSSIBLE - Spotify integration viable!", "success")
                ELSE Entry("VERDICT: Audio capture NOT possible - Recommend built-in player", "error")>>)

\* The rest of testAudioCapture: from the settled getDisplayMedia promise to
\* the verdict.
ProbeVerdict(display, recorder) ==
    LET d == DisplayCheck(display)
        r == RecorderCheck(recorder)
        results == [displayMedia |-> d.displayMedia, webAudio |-> TRUE,
                    mediaRecorder |-> r.mediaRecorder, error |-> d.error]
    IN  /\ audioCaptureResult' = SetState(audioCaptureResult, results)
        /\ Log(d.log \o r.log \o
              <<IF results.displayMedia
                THEN Entry("VERDICT: Audio capture POSSIBLE - Spotify integration viable!", "success")
                ELSE Entry("VERDICT: Audio capture NOT possible - Recommend built-in player", "error")>>)

DisplayMediaResult ==
    /\ Idle
    /\ \E i \in 1..Len(probes), display \in DisplayOutcomes,
          recorder \in RecorderOutcomes :
          /\ ProbeVerdict(display, recorder)
          /\ probes' = [k \in 1..(Len(probes) - 1) |->
                           IF k < i THEN probes[k] ELSE probes[k + 1]]
          /\ lastOp' = Op("getDisplayMedia",
                          [probe |-> probes[i], display |-> display,
                           recorder |-> recorder])
    /\ pre' = Snapshot
    /\ UNCHANGED <<authStatus, togglePending, transferPending, mixing, taken>>
    /\ UNCHANGED <<playerFrame, authFrame, marks>>

-----------------------------------------------------------------------------
(* testFullAudioMixing *)

\* mixing.mic and mixing.system count the calls suspended at getUserMedia
\* and at getDisplayMedia; mixing.streams counts the capture streams
\* acquired whose tracks have not been stopped, mixing.contexts the
\* AudioContexts created and not closed.

\* testFullAudioMixing up to `await navigator.mediaDevices.getUserMedia(...)`.
\* Its button is disabled while there is no player.
TestFullAudioMixing ==
    /\ CanClick
    /\ player # null
    /\ Log(<<Entry("Testing full audio mixing (mic + system)...", "warning")>>)
    /\ mixing' = [mixing EXCEPT !.mic = @ + 1]
    /\ lastOp' = Op("testFullAudioMixing", null)
    /\ pre' = Snapshot
    /\ taken' = taken + 1
    /\ UNCHANGED <<authStatus, audioCaptureResult, togglePending, transferPending,
                   probes>>
    /\ UNCHANGED <<playerFrame, authFrame, marks>>

\* getUserMedia settles: the microphone stream, and the call goes on to
\* `await getDisplayMedia(...)`; or a rejection, and the catch block.
UserMediaResult ==
    /\ Idle
    /\ mixing.mic > 0
    /\ \/ /\ Log(<<Info("Microphone access granted")>>)
          /\ mixing' = [mixing EXCEPT !.mic = @ - 1, !.system = @ + 1,
                                      !.streams = @ + 1]
          /\ lastOp' = Op("getUserMedia", "granted")
       \/ \E message \in Rejections :
            /\ Log(<<Entry("Audio mixing failed: " \o message, "error")>>)
            /\ mixing' = [mixing EXCEPT !.mic = @ - 1]
            /\ lastOp' = Op("getUserMedia", "rejected")
    /\ pre' = Snapshot
    /\ UNCHANGED <<authStatus, audioCaptureResult, togglePending, transferPending,
                   probes, taken>>
    /\ UNCHANGED <<playerFrame, authFrame, marks>>

\* What follows getUserMedia in a call: getDisplayMedia rejects; or it gives
\* the system stream and the graph is built; or it gives the stream and
\* `new AudioContext()` throws; or it gives the stream, the context is
\* created and building the graph throws.
MixingOutcomes == {"rejected", "mixed", "context throws", "graph throws"}

\* The rest of testFullAudioMixing, from the settled getDisplayMedia promise
\* on: what it logs, and how many of the call's streams (the microphone
\* included) and contexts it leaves unreleased.
MixingRest(outcome) ==
    CASE outcome = "mixed" ->
           [log |-> <<Info("System audio access granted"),
                      Entry("FULL AUDIO MIXING: SUCCESS!", "success"),
                      Entry("Coach voice + Spotify music mixing confirmed", "success")>>,
            streams |-> 0, contexts |-> 0]
      [] outcome = "context throws" ->
           [log |-> <<Info("System audio access granted"),
                      Entry("Audio mixing failed: failed", "error")>>,
            streams |-> 2, contexts |-> 0]
      [] outcome = "graph throws" ->
           [log |-> <<Info("System audio access granted"),
                      Entry("Audio mixing failed: failed", "error")>>,
            streams |-> 2, contexts |-> 1]
      [] OTHER ->
           [log |-> <<Entry("Audio mixing failed: Permission denied", "error")>>,
            streams |-> 1, contexts |-> 0]

\* getDisplayMedia of a testFullAudioMixing call settles and the call runs
\* to its end.
MixingDisplayResult ==
    /\ Idle
    /\ mixing.system > 0
    /\ \E outcome \in MixingOutcomes :
          LET r == MixingRest(outcome) IN
          /\ Log(r.log)
          /\ mixing' = [mixing EXCEPT !.system = @ - 1,
                                      !.streams = (@ - 1) + r.streams,
                                      !.contexts = @ + r.contexts]
          /\ lastOp' = Op("mixingDisplayMedia", outcome)
    /\ pre' = Snapshot
    /\ UNCHANGED <<authStatus, audioCaptureResult, togglePending, transferPending,
                   probes, taken>>
    /\ UNCHANGED <<playerFrame, authFrame, marks>>

-----------------------------------------------------------------------------

Next ==
    \/ Unload
    \/ LeaveForProvider
    \/ Reload
    \/ Navigate
    \/ ProviderRedirect
    \/ Teardown
    \/ ClearLog
    \/ AuthenticateStart
    \/ AuthenticateResume
    \/ MountEffect
    \/ TokenResponse
    \/ TokenBody
    \/ AuthCallbackThen
    \/ SDKReady
    \/ ConnectResult
    \/ InitializationError
    \/ AuthenticationError
    \/ AccountError
    \/ PlayerStateChanged
    \/ CurrentStateResult
    \/ Ready
    \/ NotReady
    \/ TogglePlayback
    \/ ToggleResult
    \/ TransferPlayback
    \/ TransferResponse
    \/ TestAudioCapture
    \/ DisplayMediaResult
    \/ TestFullAudioMixing
    \/ UserMediaResult
    \/ MixingDisplayResult

Spec == Init /\ [][Next]_vars

-----------------------------------------------------------------------------
(* Properties of the login flow *)

\* The last entry of the log.
LastLog == IF logs = <<>> THEN Info("") ELSE logs[Len(logs)]

\* The slice that ran last is handleAuthCallback's first one, on these
\* query parameters.
CallbackRan == lastOp.op = "handleAuthCallback"
RanCode  == lastOp.arg[1]
RanError == lastOp.arg[2]

\* handleAuthCallback has returned without a token, reporting that the
\* stored verifier is missing, and has sent nothing.
MissingVerifier ==
    /\ hac.pc = "resolved"
    /\ hac.ret = null
    /\ accessToken = null
    /\ LastLog = Entry("Token exchange error: Code verifier not found", "error")
    /\ authStatus = "Token exchange failed"

\* handleAuthCallback has returned without a token, reporting the error the
\* provider put in the URL, and has sent nothing.
AuthDenied(error) ==
    /\ hac.pc = "resolved"
    /\ hac.ret = null
    /\ accessToken = null
    /\ LastLog = Entry("Authentication error: " \o error, "error")
    /\ authStatus = "Authentication failed"

\* A token-exchange request is in flight (sent, not yet answered).
ExchangeInFlight == hac.pc \in {"fetch", "json"}

\* C1 as stated: once a token has been obtained (access token set) the
\* stored verifier is gone, and every later run of handleAuthCallback on a
\* URL carrying a code a token was obtained for ends with 'Code verifier not
\* found' and sends no token-exchange request.
C1_AnyLaterRunFindsNoVerifier ==
    /\ (lastOp.op = "tokenBody" /\ Truthy(hac.ret)) => code_verifier = null
    /\ ExchangeInFlight => hac.code \notin exchanged
    /\ (CallbackRan /\ RanCode \in exchanged /\ ~Truthy(RanError))
          => MissingVerifier

\* C1 amended: once a token has been obtained, and as long as no
\* authenticate call has stored a new verifier since, the stored verifier is
\* gone and every later run of handleAuthCallback on the same callback URL
\* ends with 'Code verifier not found' and sends no token-exchange request.
C1_ReplayFindsNoVerifier ==
    /\ consumed # {} => code_verifier = null
    /\ ExchangeInFlight => hac.code \notin consumed
    /\ (CallbackRan /\ RanCode \in consumed /\ ~Truthy(RanError))
          => (MissingVerifier /\ pre.code_verifier = null)

\* A replay: handleAuthCallback has run on the URL of a code whose token
\* was obtained earlier, and ended with the missing-verifier error.
C1_Replayed ==
    /\ CallbackRan
    /\ RanCode \in consumed
    /\ ~Truthy(RanError)
    /\ MissingVerifier

\* C2 as stated: once handleAuthCallback has finished an exchange attempt,
\* accepted, rejected or failed, no verifier is left in session storage.
C2_NoVerifierAfterExchangeAttempt ==
    (lastOp.op \in {"tokenResponse", "tokenBody"} /\ hac.pc = "resolved")
        => code_verifier = null

\* C3 as stated: on every URL that carries an `error` parameter, whatever
\* else it carries, handleAuthCallback ends in the authentication-failed
\* outcome, sends no token-exchange request and leaves the stored verifier.
C3_AnyErrorParameterDenies ==
    (CallbackRan /\ RanError # null)
        => (AuthDenied(RanError) /\ code_verifier = pre.code_verifier)

\* C3 amended: on every URL that carries a non-empty `error` parameter,
\* whatever else it carries, handleAuthCallback ends in the
\* authentication-failed outcome, and on such a page no token-exchange
\* request is ever in flight and the stored verifier stays as it was.
C3_ErrorParameterDenies ==
    /\ (CallbackRan /\ Truthy(RanError))
          => (AuthDenied(RanError) /\ code_verifier = pre.code_verifier)
    /\ (location.page = "app" /\ Truthy(location.error))
          => (~ExchangeInFlight /\ accessToken = null)

\* handleAuthCallback has run on a URL with an error and a code while a
\* verifier was stored: the exchange it could have made was not made.
C3_DeniedWithCodeAndVerifier ==
    /\ CallbackRan
    /\ Truthy(RanError)
    /\ Truthy(RanCode)
    /\ Truthy(pre.code_verifier)
    /\ AuthDenied(RanError)

\* C4 as stated: whenever the URL carries a `code` and no verifier is
\* stored, handleAuthCallback reports the missing verifier and sends no
\* request.
C4_AnyCodeWithoutVerifier ==
    (CallbackRan /\ RanCode # null /\ pre.code_verifier = null)
        => MissingVerifier

\* C4 amended: whenever the URL carries a non-empty `code` and no non-empty
\* `error`, and no verifier is stored, handleAuthCallback reports the
\* missing verifier and sends no request.
C4_CodeWithoutVerifier ==
    (CallbackRan /\ Truthy(RanCode) /\ ~Truthy(RanError)
        /\ pre.code_verifier = null)
        => (MissingVerifier /\ ~ExchangeInFlight /\ code_verifier = null)

\* handleAuthCallback has run on a URL with a code and no error while no
\* verifier was stored.
C4_RanWithoutVerifier ==
    /\ CallbackRan
    /\ Truthy(RanCode)
    /\ ~Truthy(RanError)
    /\ pre.code_verifier = null
    /\ MissingVerifier

\* C5: after a successful exchange the URL carries neither `code` nor
\* `error`, and as long as no authenticate call stores a new verifier, no
\* page load (a reload in particular) sends a token-exchange request for
\* the used code again.
C5_NoReexchangeOnReload ==
    /\ accessToken # null => (location.code = null /\ location.error = null)
    /\ (location.page = "app" /\ Truthy(hac.ret))
          => (location.code = null /\ location.error = null)
    /\ ExchangeInFlight => hac.code \notin consumed

\* The page has been reloaded after a successful exchange, with no
\* authenticate call since: it shows the URL without a code.
C5_ReloadedAfterExchange ==
    /\ lastOp.op = "reload"
    /\ consumed # {}
    /\ location.page = "app"
    /\ location.code = null

\* C11: the code_challenge of every authorize URL is the digest of the
\* verifier the same authenticate call stores under 'code_verifier',
\* whatever was stored before; the stored verifier changes only when an
\* authenticate call stores its own or a successful exchange removes it, so
\* that a stored verifier is always the one of the authorize URL the tab is
\* leaving for or has left for; and the verifier sent in a token exchange
\* is the stored one: the pair of an earlier call is never sent.
C11_ChallengePairsWithStoredVerifier ==
    /\ lastOp.op = "authorize" =>
          /\ code_verifier = lastOp.arg.codeVerifier
          /\ location.href = "S256(" \o code_verifier \o ")"
    /\ (location.page = "app" /\ location.href # null /\ code_verifier # null)
          => location.href = "S256(" \o code_verifier \o ")"
    /\ (location.page = "provider" /\ code_verifier # null)
          => location.code_challenge = "S256(" \o code_verifier \o ")"
    /\ code_verifier # pre.code_verifier =>
          \/ lastOp.op = "authorize"
          \/ (lastOp.op = "tokenBody" /\ code_verifier = null /\ Truthy(hac.ret))
    /\ (CallbackRan /\ hac.pc = "fetch") =>
          (hac.code_verifier \in Verifiers /\ hac.code_verifier = code_verifier)
    /\ ExchangeInFlight => hac.code_verifier \in Verifiers

\* An authenticate call has replaced the stored verifier v1 by its own, v2,
\* and has assigned the authorize URL with the digest of v2.
C11_ReplacedEarlierVerifier ==
    /\ lastOp.op = "authorize"
    /\ lastOp.arg.replaced = "v1"
    /\ lastOp.arg.codeVerifier = "v2"
    /\ code_verifier = "v2"
    /\ location.href = "S256(v2)"

-----------------------------------------------------------------------------
(* Properties of the player, the controls and the probe *)

\* C6: when the `ready` event carrying device id d has been handled by the
\* mounted component, the session is in its Ready state: the access token
\* is set, a player is held and deviceId is d; and a player is never held,
\* nor constructed, while no access token has been obtained.
C6_ReadyAfterLogin ==
    /\ (lastOp.op = "ready" /\ mounted) =>
          /\ accessToken # null
          /\ player # null
          /\ deviceId = lastOp.arg
          /\ authStatus = "Player ready - Transfer playback from Spotify app"
    /\ player # null => (accessToken # null /\ accessToken = hac.ret)
    /\ sdk = "ready" => Truthy(hac.ret)

\* The end of the scenario: authenticate stored a verifier, the code
\* abc123 was exchanged for a token, the player was constructed and its
\* `ready` event with device id dev1 has been handled.
C6_ReadyWithDev1 ==
    /\ mounted
    /\ lastOp.op = "ready"
    /\ lastOp.arg = "dev1"
    /\ "abc123" \in consumed
    /\ accessToken = "tok1"
    /\ player # null
    /\ deviceId = "dev1"

\* C7: a player_state_changed event with an absent payload leaves
\* currentTrack absent and isPaused true, whatever they were, and leaves
\* deviceId, player and accessToken as they were.
C7_AbsentPayloadResets ==
    (lastOp.op = "player_state_changed" /\ lastOp.arg = NoState /\ mounted) =>
        /\ currentTrack = null
        /\ isPaused = TRUE
        /\ deviceId = pre.deviceId
        /\ player = pre.player
        /\ accessToken = pre.accessToken

\* An absent payload has arrived while a track was shown as playing.
C7_ResetWhilePlaying ==
    /\ mounted
    /\ lastOp.op = "player_state_changed"
    /\ lastOp.arg = NoState
    /\ pre.currentTrack # null
    /\ pre.isPaused = FALSE
    /\ currentTrack = null
    /\ isPaused = TRUE

\* C8: a player_state_changed event with a present payload sets isPaused
\* to the payload's paused flag and, when the payload has a current track
\* named X whose first artist is Y, sets currentTrack to "Y - X".
C8_PresentPayloadSetsTrack ==
    (lastOp.op = "player_state_changed" /\ lastOp.arg # NoState /\ mounted) =>
        /\ isPaused = lastOp.arg.paused
        /\ LET current_track == lastOp.arg.track_window.current_track IN
           current_track # NoTrack =>
              /\ currentTrack =
                    current_track.artists[1].name \o " - " \o current_track.name
              /\ (current_track.name = "X" /\ current_track.artists[1].name = "Y")
                    => currentTrack = "Y - X"

\* A payload naming track X by the artists Y and Z, in this order, has
\* arrived unpaused while the player was shown as paused with no track.
C8_LabelledByFirstArtist ==
    /\ mounted
    /\ lastOp.op = "player_state_changed"
    /\ lastOp.arg # NoState
    /\ lastOp.arg.track_window.current_track # NoTrack
    /\ Len(lastOp.arg.track_window.current_track.artists) = 2
    /\ lastOp.arg.track_window.current_track.artists[1].name = "Y"
    /\ lastOp.arg.paused = FALSE
    /\ pre.isPaused = TRUE
    /\ pre.currentTrack = null
    /\ currentTrack = "Y - X"
    /\ isPaused = FALSE

\* C9: when getDisplayMedia rejects, testAudioCapture still runs to its
\* end: it publishes a verdict whose displayMedia is false and whose error
\* is the rejection's text, the MediaRecorder check is still made (its
\* outcome is in the verdict and in the log), and the last thing the probe
\* does is log the negative verdict.
C9_RejectedCaptureStillYieldsVerdict ==
    (lastOp.op = "getDisplayMedia" /\ lastOp.arg.display.kind = "rejected"
        /\ mounted) =>
        /\ audioCaptureResult # NoResult
        /\ audioCaptureResult.displayMedia = FALSE
        /\ audioCaptureResult.error = lastOp.arg.display.message
        /\ audioCaptureResult.mediaRecorder = (lastOp.arg.recorder = "supported")
        /\ logs = pre.logs
              \o <<Entry("System audio capture failed: "
                            \o lastOp.arg.display.message, "error")>>
              \o RecorderCheck(lastOp.arg.recorder).log
              \o <<Entry("VERDICT: Audio capture NOT possible - Recommend built-in player",
                         "error")>>

\* getDisplayMedia has rejected on a platform whose MediaRecorder supports
\* audio/webm: the verdict carries the rejection and the recorder's result.
C9_RejectedWithRecorderSupported ==
    /\ mounted
    /\ lastOp.op = "getDisplayMedia"
    /\ lastOp.arg.display.kind = "rejected"
    /\ lastOp.arg.recorder = "supported"
    /\ audioCaptureResult # NoResult
    /\ audioCaptureResult.mediaRecorder = TRUE
    /\ audioCaptureResult.error = "Permission denied"

\* C10: transferPlayback sends its PUT only when deviceId and accessToken
\* are both set; called while either is absent it sends nothing, logs
\* nothing and changes no state.
C10_TransferOnlyWithDeviceAndToken ==
    lastOp.op = "transferPlayback" =>
        /\ transferPending > pre.transferPending
              => (Truthy(pre.deviceId) /\ Truthy(pre.accessToken))
        /\ (~Truthy(pre.deviceId) \/ ~Truthy(pre.accessToken))
              => Snapshot = pre

\* transferPlayback has been called with a token but no device id.
C10_CalledWithoutDevice ==
    /\ lastOp.op = "transferPlayback"
    /\ pre.accessToken # null
    /\ pre.deviceId = null
    /\ transferPending = pre.transferPending
    /\ logs = pre.logs

\* The player of this page has emitted an initialization_error,
\* authentication_error or account_error event, and the mounted component
\* has handled it.
ErrorEventReceived == errorEvents /\ mounted

\* C12 as stated: once a player has received an initialization_error,
\* authentication_error or account_error event, the session is not
\* reported ready any more: no later event, a `ready` event in particular,
\* sets the status to ready.
C12_ErroredIsTerminal ==
    ErrorEventReceived =>
        authStatus # "Player ready - Transfer playback from Spotify app"

\* C15 as stated: after a player_state_changed event currentTrack is a
\* function of the event's payload alone.  A session with no track shown
\* that receives a present payload without a current track ends with no
\* track shown, so this is what every session must end with after that
\* payload; after the other payloads it is what C7 and C8 say.
C15_TrackDeterminedByPayload ==
    (lastOp.op = "player_state_changed" /\ mounted) =>
        currentTrack =
            (IF lastOp.arg = NoState THEN null
             ELSE LET current_track == lastOp.arg.track_window.current_track IN
                  IF current_track = NoTrack THEN null
                  ELSE current_track.artists[1].name \o " - " \o current_track.name)

\* C16 as stated: when two testAudioCapture calls have been in flight at
\* once and both have completed, the published verdict is the result of
\* the call started later, in whatever order they completed: when the call
\* started first completes last, the verdict the other call published
\* stays.
C16_LaterStartedProbeWins ==
    (/\ lastOp.op = "getDisplayMedia"
     /\ mounted
     /\ probeCalls = 2
     /\ probes = <<>>
     /\ lastOp.arg.probe = 1)
        => audioCaptureResult = pre.audioCaptureResult

\* C17 as stated: when connect() reports failure no player is held (so the
\* commands and probes gated on it stay disabled), the failure is logged
\* and connect() is not pending again.
C17_FailedConnectHoldsNoPlayer ==
    (lastOp.op = "connect" /\ lastOp.arg = FALSE /\ mounted) =>
        /\ player = null
        /\ LastLog = Entry("Failed to connect", "error")
        /\ ~connectPending

\* C18: togglePlayback changes no session state.  Its call sends
\* togglePlay to the player, if there is one, and nothing else; when
\* togglePlay settles only a log entry is appended, an error entry on
\* rejection.  isPaused changes through player_state_changed events only.
C18_ToggleChangesNoState ==
    /\ lastOp.op = "togglePlayback" =>
          (Snapshot = pre /\ (pre.player = null => togglePending = 0))
    /\ lastOp.op = "togglePlay" =>
          /\ [Snapshot EXCEPT !.logs = pre.logs] = pre
          /\ logs = IF ~mounted THEN pre.logs
                    ELSE Append(pre.logs,
                                IF lastOp.arg = "rejected"
                                THEN Entry("Playback error: failed", "error")
                                ELSE Info("Toggled playback"))
    /\ isPaused # pre.isPaused => lastOp.op = "player_state_changed"

\* togglePlay has rejected while the player was shown as playing a track.
C18_ToggleRejectedWhilePlaying ==
    /\ mounted
    /\ lastOp.op = "togglePlay"
    /\ lastOp.arg = "rejected"
    /\ pre.isPaused = FALSE
    /\ pre.currentTrack = "Y - X"
    /\ isPaused = FALSE
    /\ LastLog = Entry("Playback error: failed", "error")

\* C19: a not_ready event appends a warning to the log and changes nothing
\* else: deviceId, isPaused, currentTrack, the player and the status stay
\* as they were; deviceId changes through `ready` events only.
C19_NotReadyChangesNoState ==
    /\ lastOp.op = "not_ready" =>
          /\ [Snapshot EXCEPT !.logs = pre.logs] = pre
          /\ logs = IF ~mounted THEN pre.logs
                    ELSE Append(pre.logs,
                                Entry("Player not ready. Device ID: " \o lastOp.arg,
                                      "warning"))
    /\ deviceId # pre.deviceId => lastOp.op = "ready"

\* A not_ready event has arrived after a `ready` event recorded dev1.
C19_NotReadyAfterReady ==
    /\ mounted
    /\ lastOp.op = "not_ready"
    /\ pre.deviceId = "dev1"
    /\ deviceId = "dev1"
    /\ authStatus = "Player ready - Transfer playback from Spotify app"

\* C20: a known deviceId implies a player, a player implies an access
\* token; the SDK is loaded only with the token handleAuthCallback
\* returned (the access token of the mounted component), and when
\* handleAuthCallback has returned no token (failed, denied, missing
\* verifier, no code) the SDK is not loaded and no player exists.
C20_DeviceImpliesPlayerImpliesToken ==
    /\ deviceId # null => player # null
    /\ player # null => accessToken # null
    /\ sdk # "none" => Truthy(hac.ret)
    /\ (sdk # "none" /\ mounted) => accessToken = hac.ret
    /\ (hac.pc = "done" /\ hac.ret = null) =>
          (sdk = "none" /\ player = null /\ deviceId = null)

\* All three are set, the SDK is loaded and connect() has settled.
C20_AllThreeSet ==
    /\ mounted
    /\ deviceId # null
    /\ player # null
    /\ accessToken # null
    /\ sdk = "ready"
    /\ ~connectPending

-----------------------------------------------------------------------------
(* Properties of the component's teardown *)

\* C13 as stated: when the mount effect's cleanup runs while a player has
\* been constructed (and is held in state), it calls disconnect() on that
\* player.
C13_TeardownDisconnects ==
    (lastOp.op = "teardown" /\ lastOp.arg.player # null)
        => lastOp.arg.disconnect

-----------------------------------------------------------------------------
(* Properties of the mixing probe *)

\* C14 as stated: every capture stream a testFullAudioMixing call acquired
\* and every audio context it created is released before the call
\* finishes, on every path: the only streams engaged are the microphones of
\* the calls still waiting for system audio, and no context stays open.
C14_MixingReleasesEverything ==
    /\ mixing.streams = mixing.system
    /\ mixing.contexts = 0

====
